---- MODULE Spec2Model ----
(***************************************************************************)
(* A model of ton-node-kit (src/src/index.ts): the retry executor          *)
(* withRetry and the transaction field decoders getTxSender,               *)
(* getTxValueAmount and getTxComment.                                      *)
(*                                                                         *)
(* SpecRetry   one call of withRetry(fn, retries, delay), step by step     *)
(* SpecDecoder calls of the three decoders on one transaction              *)
(***************************************************************************)
EXTENDS Integers, Sequences, FiniteSets, TLC

VARIABLES
    \* ---- withRetry ----
    fn,         \* the wrapped operation: what its n-th invocation does
    opMs,       \* how long one invocation of fn takes
    retries,    \* parameter retries (maxAttempts)
    delay,      \* parameter delay (delayMs)
    i,          \* the loop counter of withRetry
    pc,         \* where the call of withRetry stands
    calls,      \* the invocations of fn so far, in order
    sleeps,     \* the delays waited so far, in order
    now,        \* the clock, in ms
    result,     \* the promise withRetry returned to its caller
    \* ---- decoders ----
    tx,         \* the transaction handed to the decoders
    ret,        \* what the last decoder call did
    reads       \* what each getTxComment call so far read from the body

retryVars == <<fn, opMs, retries, delay, i, pc, calls, sleeps, now, result>>
decoderVars == <<tx, ret, reads>>
vars == <<retryVars, decoderVars>>

(***************************************************************************)
(* Bounds and program constants                                            *)
(***************************************************************************)
MaxRetries == 3         \* the largest retries argument explored
MaxOpMs == 1            \* the longest one invocation of fn takes
DefaultRetries == 3     \* retries = 3
DefaultDelay == 1000    \* delay = 1000

Delays == {0, 10, DefaultDelay}

\* What one invocation of fn can do: throw synchronously, return a plain
\* value, or return a promise that later fulfils or rejects.
Behaviours == {"throw", "value", "resolve", "reject"}

(***************************************************************************)
(* withRetry                                                               *)
(***************************************************************************)
\* the value (or error) invocation n of fn produces is identified by n;
\* 0 stands for undefined
Undefined == 0

Pending == [state |-> "pending", by |-> Undefined, at |-> 0]

LoopCond_offByOne(ii, r) == ii < r - 1

\* for (let i = 0; i < retries; i++)
LoopCond(ii, r) == ii < r

IsLastAttempt_never(ii, r) == ii = r

\* if (i === retries - 1) throw e;
IsLastAttempt(ii, r) == ii = r - 1

SleepMs_backoff(d, ii) == d * (ii + 1)

\* setTimeout(r, delay)
SleepMs(d, ii) == d

\* the record of one invocation of fn
Call(n, kind, start, end, done) ==
    [n |-> n, kind |-> kind, start |-> start, end |-> end, done |-> done]

(***************************************************************************)
(* Values of the decoders                                                  *)
(***************************************************************************)
\* An optional value is a sequence: <<>> is undefined, <<v>> is v.  Text is
\* a sequence of code points.
NoAddress == [workChain |-> 0, hash |-> <<>>]

\* a JavaScript value a decoder returns
Val(tag, addr, chars, n) == [tag |-> tag, addr |-> addr, chars |-> chars, n |-> n]
UndefinedVal == Val("undefined", NoAddress, <<>>, 0)
AddressVal(a) == Val("address", a, <<>>, 0)
StringVal(cs) == Val("string", NoAddress, cs, 0)
BigintVal(n) == Val("bigint", NoAddress, <<>>, n)

\* the options argument of a decoder call; given = FALSE: no argument
Options(given, currency, returnBigint, hex) ==
    [given |-> given, currency |-> currency, returnBigint |-> returnBigint,
     hex |-> hex]
NoOptions == Options(FALSE, "undefined", "undefined", FALSE)

\* what a decoder call did
Returned(name, opts, v) ==
    [fn |-> name, opts |-> opts, status |-> "return", value |-> v,
     error |-> "", arg |-> ""]
Threw(name, opts, msg, arg) ==
    [fn |-> name, opts |-> opts, status |-> "throw", value |-> UndefinedVal,
     error |-> msg, arg |-> arg]
NoCall ==
    [fn |-> "none", opts |-> NoOptions, status |-> "none",
     value |-> UndefinedVal, error |-> "", arg |-> ""]

\* a transaction: inMessage?, its info (type, src?, value?.coins) and body
Tx(hasIn, type, src, coins, body) ==
    [hasIn |-> hasIn, type |-> type, src |-> src, coins |-> coins, body |-> body]
NoInMessage == Tx(FALSE, "none", <<>>, <<>>, <<>>)

InitDecoderIdle ==
    /\ tx = NoInMessage
    /\ ret = NoCall
    /\ reads = <<>>

InitRetry ==
    /\ fn \in [1..(MaxRetries + 1) -> Behaviours]
    /\ opMs \in 0..MaxOpMs
    /\ retries \in (0..MaxRetries) \cup {DefaultRetries}
    /\ delay \in Delays
    /\ i = 0
    /\ pc = "loop"
    /\ calls = <<>>
    /\ sleeps = <<>>
    /\ now = 0
    /\ result = Pending
    /\ InitDecoderIdle

\* the attempt about to be made, capped so that fn is defined there
NextN == IF Len(calls) < MaxRetries + 1 THEN Len(calls) + 1 ELSE MaxRetries + 1

CanInvoke == pc = "loop" /\ LoopCond(i, retries) /\ Len(calls) <= MaxRetries + 1

\* return fn();  -- fn returns a plain value: the promise of withRetry fulfils
AttemptReturns ==
    /\ CanInvoke
    /\ fn[NextN] = "value"
    /\ calls' = Append(calls, Call(NextN, "value", now, now + opMs, TRUE))
    /\ now' = now + opMs
    /\ result' = [state |-> "fulfilled", by |-> NextN, at |-> now + opMs]
    /\ pc' = "settled"
    /\ UNCHANGED <<fn, opMs, retries, delay, i, sleeps>>
    /\ UNCHANGED decoderVars

\* return fn();  -- fn returns a promise: the try block is left by the
\* return, and the promise of withRetry follows the returned promise
AttemptReturnsPromise ==
    /\ CanInvoke
    /\ fn[NextN] \in {"resolve", "reject"}
    /\ calls' = Append(calls, Call(NextN, fn[NextN], now, now, FALSE))
    /\ pc' = "following"
    /\ UNCHANGED <<fn, opMs, retries, delay, i, sleeps, now, result>>
    /\ UNCHANGED decoderVars

\* the promise fn returned fulfils
PromiseFulfils ==
    /\ pc = "following"
    /\ calls[Len(calls)].kind = "resolve"
    /\ calls' = [calls EXCEPT ![Len(calls)].end = now + opMs,
                              ![Len(calls)].done = TRUE]
    /\ now' = now + opMs
    /\ result' = [state |-> "fulfilled", by |-> calls[Len(calls)].n,
                  at |-> now + opMs]
    /\ pc' = "settled"
    /\ UNCHANGED <<fn, opMs, retries, delay, i, sleeps>>
    /\ UNCHANGED decoderVars

\* the promise fn returned rejects: no catch block is active any more
PromiseRejects ==
    /\ pc = "following"
    /\ calls[Len(calls)].kind = "reject"
    /\ calls' = [calls EXCEPT ![Len(calls)].end = now + opMs,
                              ![Len(calls)].done = TRUE]
    /\ now' = now + opMs
    /\ result' = [state |-> "rejected", by |-> calls[Len(calls)].n,
                  at |-> now + opMs]
    /\ pc' = "settled"
    /\ UNCHANGED <<fn, opMs, retries, delay, i, sleeps>>
    /\ UNCHANGED decoderVars

\* fn throws on the last attempt: catch (e) { if (i === retries - 1) throw e;
AttemptThrowsLast ==
    /\ CanInvoke
    /\ fn[NextN] = "throw"
    /\ IsLastAttempt(i, retries)
    /\ calls' = Append(calls, Call(NextN, "throw", now, now + opMs, TRUE))
    /\ now' = now + opMs
    /\ result' = [state |-> "rejected", by |-> NextN, at |-> now + opMs]
    /\ pc' = "settled"
    /\ UNCHANGED <<fn, opMs, retries, delay, i, sleeps>>
    /\ UNCHANGED decoderVars

\* fn throws on an earlier attempt: await new Promise(r => setTimeout(r, delay))
AttemptThrowsRetry ==
    /\ CanInvoke
    /\ fn[NextN] = "throw"
    /\ ~IsLastAttempt(i, retries)
    /\ calls' = Append(calls, Call(NextN, "throw", now, now + opMs, TRUE))
    /\ now' = now + opMs
    /\ pc' = "sleeping"
    /\ UNCHANGED <<fn, opMs, retries, delay, i, sleeps, result>>
    /\ UNCHANGED decoderVars

\* the timer fires, the await resumes, i++ and the loop condition is next
TimerFires ==
    /\ pc = "sleeping"
    /\ sleeps' = Append(sleeps, SleepMs(delay, i))
    /\ now' = now + SleepMs(delay, i)
    /\ i' = i + 1
    /\ pc' = "loop"
    /\ UNCHANGED <<fn, opMs, retries, delay, calls, result>>
    /\ UNCHANGED decoderVars

\* the loop condition fails: the function ends without a return statement
LoopExit ==
    /\ pc = "loop"
    /\ ~LoopCond(i, retries)
    /\ result' = [state |-> "fulfilled", by |-> Undefined, at |-> now]
    /\ pc' = "settled"
    /\ UNCHANGED <<fn, opMs, retries, delay, i, calls, sleeps, now>>
    /\ UNCHANGED decoderVars

\* export async function withRetry(fn, retries = 3, delay = 1000)
NextRetry ==
    \/ AttemptReturns
    \/ AttemptReturnsPromise
    \/ PromiseFulfils
    \/ PromiseRejects
    \/ AttemptThrowsLast
    \/ AttemptThrowsRetry
    \/ TimerFires
    \/ LoopExit

SpecRetry == InitRetry /\ [][NextRetry]_vars

(***************************************************************************)
(* Claims about withRetry                                                  *)
(***************************************************************************)
\* fn throws on its first k invocations and succeeds on invocation k + 1
FailsThenSucceeds(k) ==
    /\ retries >= 1
    /\ k < retries
    /\ \A n \in 1..k : fn[n] = "throw"
    /\ fn[k + 1] \in {"value", "resolve"}

\* C1: when fn fails on its first k < retries invocations and succeeds on
\* invocation k + 1, withRetry completes with the result of invocation k + 1,
\* fn has been invoked exactly k + 1 times, exactly k delays of `delay` ms
\* have been waited, and nothing is invoked or waited after the success.
\* Until it has completed the call always has a next step to take.
C1_SucceedsAfterKFailures ==
    \A k \in 0..MaxRetries :
        FailsThenSucceeds(k) =>
            /\ Len(calls) <= k + 1
            /\ Len(sleeps) <= k
            /\ \A n \in 1..Len(sleeps) : sleeps[n] = delay
            /\ pc # "settled" => ENABLED NextRetry
            /\ pc = "settled" =>
                    /\ result.state = "fulfilled"
                    /\ result.by = k + 1
                    /\ Len(calls) = k + 1
                    /\ Len(sleeps) = k
                    /\ result.at = calls[k + 1].end

\* withRetry(op, 3, 10), op fails twice and then succeeds: settled with the
\* third invocation's result after two sleeps
C1_Witness ==
    /\ pc = "settled"
    /\ retries = 3
    /\ delay = 10
    /\ FailsThenSucceeds(2)
    /\ result.state = "fulfilled"
    /\ result.by = 3
    /\ sleeps = <<10, 10>>

\* fn throws on every invocation withRetry can make
AlwaysThrows == retries >= 1 /\ \A n \in 1..retries : fn[n] = "throw"

\* C4: when fn fails on every invocation, fn is invoked exactly `retries`
\* times, withRetry fails with the error of the last invocation, and exactly
\* retries - 1 delays are waited, none of them after the last failure.
C4_ExhaustedThrowsLastError ==
    AlwaysThrows =>
        /\ Len(calls) <= retries
        /\ Len(sleeps) <= retries - 1
        /\ pc = "settled" =>
                /\ result.state = "rejected"
                /\ result.by = retries
                /\ Len(calls) = retries
                /\ Len(sleeps) = retries - 1
                /\ result.at = calls[retries].end

\* withRetry(op, 2, 0), op always throws: rejected with the second error
C4_Witness ==
    /\ pc = "settled"
    /\ retries = 2
    /\ delay = 0
    /\ AlwaysThrows
    /\ result.state = "rejected"
    /\ result.by = 2
    /\ Len(calls) = 2

\* C5: a rejected promise of fn counts as a failed attempt that is retried:
\* the caller sees a rejection only after all `retries` attempts have failed.
C5_RejectionOnlyAfterAllAttempts ==
    (pc = "settled" /\ result.state = "rejected") =>
        /\ Len(calls) = retries
        /\ Len(sleeps) = retries - 1

\* the invocations of fn that have started and not finished
InFlight == {n \in 1..Len(calls) : ~calls[n].done}

\* C10: fn is invoked at most `retries` times; invocation n + 1 starts only
\* after invocation n has completed with a failure and one delay of the
\* constant `delay` ms has elapsed; two invocations are never in flight
\* together; nothing is invoked after a success.
C10_SequentialBoundedConstantDelay ==
    /\ Len(calls) <= retries
    /\ Cardinality(InFlight) <= 1
    /\ \A n \in 1..Len(sleeps) : sleeps[n] = delay
    /\ \A n \in 1..(Len(calls) - 1) :
            /\ calls[n].done
            /\ calls[n].kind = "throw"
            /\ calls[n + 1].start = calls[n].end + delay
    /\ \A n \in 1..Len(calls) :
            calls[n].kind \in {"value", "resolve"} => n = Len(calls)

\* three attempts, the last one an asynchronous success, two sleeps of 10 ms
C10_Witness ==
    /\ pc = "settled"
    /\ retries = 3
    /\ delay = 10
    /\ opMs = 1
    /\ Len(calls) = 3
    /\ calls[3].kind = "resolve"
    /\ calls[3].start = 22


(***************************************************************************)
(* getTxSender                                                             *)
(***************************************************************************)
\* export function getTxSender(tx: Transaction): the function declares no
\* options parameter, so a second argument is accepted and ignored
getTxSender(t, opts) ==
    IF t.hasIn /\ t.src # <<>>
    THEN Returned("getTxSender", opts, AddressVal(t.src[1]))
    ELSE Returned("getTxSender", opts, UndefinedVal)

(***************************************************************************)
(* getTxValueAmount                                                        *)
(***************************************************************************)
NanoPerTon == 1000000000

RECURSIVE Digits(_)
\* String(n) of a non-negative integer, as code points
Digits(n) == IF n < 10 THEN <<48 + n>> ELSE Append(Digits(n \div 10), 48 + (n % 10))

RECURSIVE PadStart9(_)
\* while (facStr.length < 9) facStr = '0' + facStr
PadStart9(cs) == IF Len(cs) < 9 THEN PadStart9(<<48>> \o cs) ELSE cs

\* facStr.match(/^([0-9]*[1-9]|0)(0*)/)[1]: the longest prefix ending in a
\* non-zero digit, or "0" when every digit is 0
SignificantPrefix(cs) ==
    LET nz == {k \in 1..Len(cs) : cs[k] # 48}
    IN  IF nz = {} THEN <<48>>
        ELSE SubSeq(cs, 1, CHOOSE k \in nz : \A j \in nz : j <= k)

\* fromNano of @ton/core for a non-negative amount
fromNano(v) ==
    LET facStr == SignificantPrefix(PadStart9(Digits(v % NanoPerTon)))
        wholeStr == Digits(v \div NanoPerTon)
    IN  IF facStr = <<48>> THEN wholeStr ELSE wholeStr \o <<46>> \o facStr

Falsy_onlyAbsent(rawValue) == rawValue = <<>>

\* !rawValue: undefined and the bigint 0n are both falsy
Falsy(rawValue) == rawValue = <<>> \/ rawValue[1] = 0

\* options: GetTxValueAmountOptions = { currency: 'ton' } -- the default
\* applies only when no options argument is passed
DefaultOptions(opts) ==
    IF opts.given THEN opts ELSE Options(TRUE, "ton", "undefined", opts.hex)

\* export function getTxValueAmount(tx, options = { currency: 'ton' })
getTxValueAmount(t, opts) ==
    LET rawValue == IF t.hasIn THEN t.coins ELSE <<>>
        options == DefaultOptions(opts)
        currency == options.currency
    IN  IF Falsy(rawValue)
        THEN Threw("getTxValueAmount", opts, "Can't get currency from transaction", "")
        ELSE CASE currency = "ton" ->
                    Returned("getTxValueAmount", opts, StringVal(fromNano(rawValue[1])))
               [] currency = "nano" ->
                    IF options.returnBigint = "true"
                    THEN Returned("getTxValueAmount", opts, BigintVal(rawValue[1]))
                    ELSE Returned("getTxValueAmount", opts, StringVal(Digits(rawValue[1])))
               [] OTHER ->
                    Threw("getTxValueAmount", opts, "unknown currency ", currency)

(***************************************************************************)
(* getTxComment                                                            *)
(***************************************************************************)
\* A Slice is a cursor [bits, offset] over the bytes of a cell; the cursors
\* of one call live in a heap and are named by their index in it.  The bits
\* of a cursor are the cell's own buffer, shared by reference.
NaN == -1

\* cell.beginParse(): a new cursor at the start of the cell
beginParse(cell) == [bits |-> cell, offset |-> 0]

clone_alias(heap, ref) == [heap |-> heap, ref |-> ref]

\* slice.clone(): a second cursor at the same position
clone(heap, ref) == [heap |-> Append(heap, heap[ref]), ref |-> Len(heap) + 1]

remainingBits(slice) == 8 * (Len(slice.bits) - slice.offset)

remainingBytes(slice) == SubSeq(slice.bits, slice.offset + 1, Len(slice.bits))

RECURSIVE UintBE(_)
\* the big-endian unsigned integer the bytes spell
UintBE(bytes) ==
    IF bytes = <<>> THEN 0
    ELSE 256 * UintBE(SubSeq(bytes, 1, Len(bytes) - 1)) + bytes[Len(bytes)]

\* slice.loadUint(bits), enough bits remaining: reads them and advances the
\* cursor it is called on
loadUint(heap, ref, nbits) ==
    [heap |-> [heap EXCEPT ![ref].offset = @ + (nbits \div 8)],
     value |-> UintBE(SubSeq(heap[ref].bits, heap[ref].offset + 1,
                             heap[ref].offset + (nbits \div 8)))]

HexDigit(d) == IF d < 10 THEN 48 + d ELSE 55 + d

RECURSIVE HexOf(_)
\* the upper-case hex digits of the bytes
HexOf(bytes) ==
    IF bytes = <<>> THEN <<>>
    ELSE <<HexDigit(bytes[1] \div 16), HexDigit(bytes[1] % 16)>> \o HexOf(Tail(bytes))

\* slice.toString(): the remaining bits as a cell, printed x{...}
toString(slice) == <<120, 123>> \o HexOf(remainingBytes(slice)) \o <<125>>

\* the value of a hex digit, NaN for any other character
HexValue(c) ==
    IF c \in 48..57 THEN c - 48
    ELSE IF c \in 65..70 THEN c - 55
    ELSE IF c \in 97..102 THEN c - 87
    ELSE NaN

DecValue(c) == IF c \in 48..57 THEN c - 48 ELSE NaN

parseInt_radix10(sub) ==
    IF sub = <<>> \/ DecValue(sub[1]) = NaN THEN NaN
    ELSE IF Len(sub) = 1 \/ DecValue(sub[2]) = NaN THEN DecValue(sub[1])
    ELSE 10 * DecValue(sub[1]) + DecValue(sub[2])

\* parseInt(sub, 16) of at most two characters: the longest prefix of hex
\* digits, NaN when there is none
parseInt(sub) ==
    IF sub = <<>> \/ HexValue(sub[1]) = NaN THEN NaN
    ELSE IF Len(sub) = 1 \/ HexValue(sub[2]) = NaN THEN HexValue(sub[1])
    ELSE 16 * HexValue(sub[1]) + HexValue(sub[2])

\* new Uint8Array(byteArray): NaN becomes 0, numbers are taken modulo 256
ToUint8(n) == IF n = NaN THEN 0 ELSE n % 256

RECURSIVE byteArray(_)
\* for (i = 0; i < hexString.length; i += 2)
\*     byteArray.push(parseInt(hexString.substring(i, i + 2), 16))
byteArray(hexString) ==
    IF hexString = <<>> THEN <<>>
    ELSE IF Len(hexString) = 1 THEN <<ToUint8(parseInt(hexString))>>
    ELSE <<ToUint8(parseInt(SubSeq(hexString, 1, 2)))>>
             \o byteArray(SubSeq(hexString, 3, Len(hexString)))


\* the state of the UTF-8 decoder between two bytes
Utf8State(cp, seen, needed, lower, upper) ==
    [cp |-> cp, seen |-> seen, needed |-> needed, lower |-> lower, upper |-> upper]
Utf8Start == Utf8State(0, 0, 0, 128, 191)

RECURSIVE Utf8(_, _, _)
\* the UTF-8 decoder of TextDecoder (not fatal): the code points of
\* bytes[k..], U+FFFD for every malformed sequence
Utf8(bytes, k, st) ==
    IF k > Len(bytes)
    THEN IF st.needed # 0 THEN <<65533>> ELSE <<>>
    ELSE LET b == bytes[k] IN
         IF st.needed = 0
         THEN IF b <= 127 THEN <<b>> \o Utf8(bytes, k + 1, Utf8Start)
              ELSE IF b \in 194..223
                   THEN Utf8(bytes, k + 1, Utf8State(b % 32, 0, 1, 128, 191))
              ELSE IF b \in 224..239
                   THEN Utf8(bytes, k + 1,
                             Utf8State(b % 16, 0, 2,
                                       IF b = 224 THEN 160 ELSE 128,
                                       IF b = 237 THEN 159 ELSE 191))
              ELSE IF b \in 240..244
                   THEN Utf8(bytes, k + 1,
                             Utf8State(b % 8, 0, 3,
                                       IF b = 240 THEN 144 ELSE 128,
                                       IF b = 244 THEN 143 ELSE 191))
              ELSE <<65533>> \o Utf8(bytes, k + 1, Utf8Start)
         ELSE IF b \notin st.lower..st.upper
              THEN <<65533>> \o Utf8(bytes, k, Utf8Start)
              ELSE LET cp == st.cp * 64 + (b % 64) IN
                   IF st.seen + 1 = st.needed
                   THEN <<cp>> \o Utf8(bytes, k + 1, Utf8Start)
                   ELSE Utf8(bytes, k + 1,
                             Utf8State(cp, st.seen + 1, st.needed, 128, 191))

\* new TextDecoder().decode(bytes): a leading byte order mark is dropped
decode(bytes) ==
    IF Len(bytes) >= 3 /\ SubSeq(bytes, 1, 3) = <<239, 187, 191>>
    THEN Utf8(bytes, 4, Utf8Start)
    ELSE Utf8(bytes, 1, Utf8Start)

RECURSIVE DropLeadingNul(_)
DropLeadingNul(cs) ==
    IF cs # <<>> /\ cs[1] = 0 THEN DropLeadingNul(Tail(cs)) ELSE cs

RECURSIVE DropTrailingNul(_)
DropTrailingNul(cs) ==
    IF cs # <<>> /\ cs[Len(cs)] = 0
    THEN DropTrailingNul(SubSeq(cs, 1, Len(cs) - 1))
    ELSE cs

\* commentText.replace(/^\x00+|\x00+$/g, '')
replaceNul(commentText) == DropTrailingNul(DropLeadingNul(commentText))

\* what one call of getTxComment read: the operation code (if it got one),
\* the bytes after it, where the cursor of beginParse() stands at the end,
\* and the body's bytes before and after the call
Read(op, rest, original, before, after) ==
    [op |-> op, rest |-> rest, original |-> original, before |-> before,
     after |-> after]

\* export function getTxComment(tx: Transaction)
getTxComment(t) ==
    IF ~t.hasIn
    THEN \* originalBody, body and op are undefined, and undefined !== 0
         [ret |-> Threw("getTxComment", NoOptions, "op != 0, can't get tx message", ""),
          read |-> Read(<<>>, <<>>, 0, t.body, t.body)]
    ELSE LET originalBody == 1
             c == clone(<<beginParse(t.body)>>, originalBody)
             body == c.ref
         IN  IF remainingBits(c.heap[body]) < 32
             THEN \* loadUint throws: the reader has fewer than 32 bits left
                  [ret |-> Threw("getTxComment", NoOptions, "out of bounds", ""),
                   read |-> Read(<<>>, remainingBytes(c.heap[body]),
                                 c.heap[originalBody].offset, t.body,
                                 c.heap[body].bits)]
             ELSE LET l == loadUint(c.heap, body, 32)
                      op == l.value
                      rd == Read(<<op>>, remainingBytes(l.heap[body]),
                                 l.heap[originalBody].offset, t.body,
                                 l.heap[body].bits)
                  IN  IF op # 0
                      THEN [ret |-> Threw("getTxComment", NoOptions,
                                          "op != 0, can't get tx message", ""),
                            read |-> rd]
                      ELSE LET hexString == toString(l.heap[body])
                               commentText == decode(byteArray(hexString))
                           IN  [ret |-> Returned("getTxComment", NoOptions,
                                                 StringVal(replaceNul(commentText))),
                                read |-> rd]

(***************************************************************************)
(* The decoders called on one transaction                                  *)
(***************************************************************************)
MaxCommentLen == 3      \* the longest comment (bytes after the operation code)
MaxCalls == 2           \* how many getTxComment calls are recorded

SeqsUpTo(S, n) == UNION {[1..k -> S] : k \in 0..n}

Addresses == {[workChain |-> 0, hash |-> <<97, 98>>],
              [workChain |-> 0, hash |-> <<99, 100>>]}

CoinValues == {0, 1, 50000000, 1000000000, 1500000000, 2000000001}

\* bytes a comment is made of: NUL, "H", the two bytes of U+00E9, and a
\* byte that is never valid in UTF-8
CommentBytes == {0, 72, 195, 169, 255}

OpCodes == {<<0, 0, 0, 0>>, <<0, 0, 0, 1>>, <<1, 0, 0, 0>>}

Bodies ==
    SeqsUpTo({0, 1}, 3)
        \cup {op \o b : op \in OpCodes, b \in SeqsUpTo(CommentBytes, MaxCommentLen)}

Hello == <<0, 0, 0, 0, 72>>

Transactions ==
    {NoInMessage}
        \cup {Tx(TRUE, "internal", <<a>>, <<v>>, Hello) :
                  a \in Addresses, v \in CoinValues}
        \cup {Tx(TRUE, "external-in", src, <<>>, Hello) :
                  src \in {<<>>} \cup {<<a>> : a \in Addresses}}
        \cup {Tx(TRUE, "external-out", <<a>>, <<>>, Hello) : a \in Addresses}
        \cup {Tx(TRUE, "internal", <<[workChain |-> 0, hash |-> <<97, 98>>]>>,
                  <<50000000>>, b) : b \in Bodies}

Currencies == {"undefined", "ton", "nano", "btc"}

AmountOptions ==
    {NoOptions}
        \cup {Options(TRUE, cur, big, FALSE) :
                  cur \in Currencies, big \in {"undefined", "true", "false"}}

SenderOptions ==
    {NoOptions, Options(TRUE, "undefined", "undefined", FALSE),
     Options(TRUE, "undefined", "undefined", TRUE)}

InitRetryIdle ==
    /\ fn = [n \in 1..(MaxRetries + 1) |-> "value"]
    /\ opMs = 0
    /\ retries = DefaultRetries
    /\ delay = DefaultDelay
    /\ i = 0
    /\ pc = "idle"
    /\ calls = <<>>
    /\ sleeps = <<>>
    /\ now = 0
    /\ result = Pending

InitDecoder ==
    /\ tx \in Transactions
    /\ ret = NoCall
    /\ reads = <<>>
    /\ InitRetryIdle

CallGetTxSender ==
    /\ \E opts \in SenderOptions : ret' = getTxSender(tx, opts)
    /\ UNCHANGED <<tx, reads>>
    /\ UNCHANGED retryVars

CallGetTxValueAmount ==
    /\ \E opts \in AmountOptions : ret' = getTxValueAmount(tx, opts)
    /\ UNCHANGED <<tx, reads>>
    /\ UNCHANGED retryVars

\* the body's buffer is the one the cursors of the call read from
CallGetTxComment ==
    /\ Len(reads) < MaxCalls
    /\ LET r == getTxComment(tx) IN
           /\ ret' = r.ret
           /\ reads' = Append(reads, r.read)
           /\ tx' = [tx EXCEPT !.body = r.read.after]
    /\ UNCHANGED retryVars

NextDecoder ==
    \/ CallGetTxSender
    \/ CallGetTxValueAmount
    \/ CallGetTxComment

SpecDecoder == InitDecoder /\ [][NextDecoder]_vars


(***************************************************************************)
(* Claims about the decoders                                               *)
(***************************************************************************)
\* the last getTxComment call's record
LastRead == reads[Len(reads)]

\* the body has a 32-bit operation code
OpPresent(t, body) == t.hasIn /\ Len(body) >= 4
OpOf(body) == UintBE(SubSeq(body, 1, 4))

\* C2: getTxComment throws if and only if a 32-bit operation code is present
\* and non-zero; with no incoming message, or with fewer than 32 bits in the
\* body, it returns the empty string.
C2_ThrowsOnlyOnNonZeroOp ==
    ret.fn = "getTxComment" =>
        LET body == LastRead.before IN
        /\ ret.status = "throw" <=> (OpPresent(tx, body) /\ OpOf(body) # 0)
        /\ ~OpPresent(tx, body) =>
               ret = Returned("getTxComment", NoOptions, StringVal(<<>>))

\* the text without its leading and trailing NUL characters
TrimNul(cs) ==
    LET keep == {k \in 1..Len(cs) : cs[k] # 0}
    IN  IF keep = {} THEN <<>>
        ELSE SubSeq(cs, CHOOSE k \in keep : \A j \in keep : k <= j,
                        CHOOSE k \in keep : \A j \in keep : j <= k)

\* C3: for a body that is a zero 32-bit operation code followed by bytes b,
\* getTxComment returns the UTF-8 text of b, nothing added and nothing
\* dropped, less its leading and trailing NUL characters; interior NULs stay.
C3_CommentIsTextOfBytes ==
    (ret.fn = "getTxComment" /\ OpPresent(tx, LastRead.before)
        /\ OpOf(LastRead.before) = 0) =>
        LET b == SubSeq(LastRead.before, 5, Len(LastRead.before)) IN
        ret = Returned("getTxComment", NoOptions,
                       StringVal(TrimNul(Utf8(b, 1, Utf8Start))))

\* the comment "H\0H" keeps its interior NUL
C3_Witness ==
    /\ ret.fn = "getTxComment"
    /\ tx.body = <<0, 0, 0, 0, 72, 0, 72>>
    /\ ret.status = "return"
    /\ ret.value.chars = <<72, 0, 72>>

\* C6: for a body that begins with a non-zero operation code, getTxComment
\* throws and leaves the body as it was: every call reads the same operation
\* code and the same remaining bytes, and the operation code is consumed
\* from a clone, the cursor of beginParse() staying at the start.
C6_NonZeroOpThrowsBodyUnchanged ==
    (reads # <<>> /\ OpPresent(tx, reads[1].before)
        /\ OpOf(reads[1].before) # 0) =>
        LET body == reads[1].before IN
        /\ tx.body = body
        /\ \A n \in 1..Len(reads) :
               /\ reads[n].before = body
               /\ reads[n].after = body
               /\ reads[n].op = <<OpOf(body)>>
               /\ reads[n].rest = SubSeq(body, 5, Len(body))
               /\ reads[n].original = 0
        /\ ret.fn = "getTxComment" =>
               ret = Threw("getTxComment", NoOptions,
                           "op != 0, can't get tx message", "")

\* a second call on a body with operation code 1 and a comment after it
C6_Witness ==
    /\ Len(reads) = 2
    /\ ret.fn = "getTxComment"
    /\ ret.status = "throw"
    /\ reads[2].op = <<1>>
    /\ reads[2].rest = <<72, 0, 72>>

RECURSIVE Pow10(_)
Pow10(n) == IF n = 0 THEN 1 ELSE 10 * Pow10(n - 1)

RECURSIVE NumberOf(_)
\* the number a string of decimal digits spells
NumberOf(cs) ==
    IF cs = <<>> THEN 0
    ELSE 10 * NumberOf(SubSeq(cs, 1, Len(cs) - 1)) + (cs[Len(cs)] - 48)

IsDigits(cs) == cs # <<>> /\ \A k \in 1..Len(cs) : cs[k] \in 48..57

\* cs is the decimal notation of v / 10^9 exactly: whole part without
\* leading zeros, fraction without trailing zeros
ExactTon(cs, v) ==
    LET dots == {k \in 1..Len(cs) : cs[k] = 46}
        whole == IF dots = {} THEN cs
                 ELSE SubSeq(cs, 1, (CHOOSE k \in dots : TRUE) - 1)
        frac == IF dots = {} THEN <<>>
                ELSE SubSeq(cs, (CHOOSE k \in dots : TRUE) + 1, Len(cs))
    IN  /\ Cardinality(dots) <= 1
        /\ IsDigits(whole)
        /\ Len(whole) > 1 => whole[1] # 48
        /\ dots # {} => IsDigits(frac) /\ Len(frac) <= 9 /\ frac[Len(frac)] # 48
        /\ NumberOf(whole) * NanoPerTon
               + NumberOf(frac) * Pow10(IF dots = {} THEN 0 ELSE 9 - Len(frac)) = v

\* C7: for a positive coin value v, getTxValueAmount returns v itself for
\* currency 'nano' with returnBigint, the decimal string of v for currency
\* 'nano' without it, and the exact decimal string of v / 10^9 for currency
\* 'ton', which is also what a caller who requests no currency gets.
C7_AmountByCurrency ==
    (ret.fn = "getTxValueAmount" /\ tx.hasIn /\ tx.coins # <<>>
        /\ tx.coins[1] > 0) =>
        LET v == tx.coins[1]
            o == ret.opts
        IN  /\ (o.given /\ o.currency = "nano" /\ o.returnBigint = "true") =>
                   ret = Returned("getTxValueAmount", o, BigintVal(v))
            /\ (o.given /\ o.currency = "nano" /\ o.returnBigint # "true") =>
                   ret = Returned("getTxValueAmount", o, StringVal(Digits(v)))
            /\ (~o.given \/ o.currency \in {"ton", "undefined"}) =>
                   /\ ret.status = "return"
                   /\ ret.value.tag = "string"
                   /\ ExactTon(ret.value.chars, v)

\* C8: getTxValueAmount fails with the cannot-get-amount error when the
\* incoming message or its coin value is absent or the value is zero,
\* whatever the options; it fails with the unknown-currency error naming the
\* currency when the value is positive and the currency is neither 'ton' nor
\* 'nano'; in every other case it returns a value.
C8_AmountFailsInTwoCases ==
    ret.fn = "getTxValueAmount" =>
        LET noAmount == ~tx.hasIn \/ tx.coins = <<>> \/ tx.coins[1] = 0
            requested == IF ret.opts.given THEN ret.opts.currency ELSE "ton"
        IN  /\ noAmount =>
                   ret = Threw("getTxValueAmount", ret.opts,
                               "Can't get currency from transaction", "")
            /\ (~noAmount /\ requested \notin {"ton", "nano"}) =>
                   ret = Threw("getTxValueAmount", ret.opts,
                               "unknown currency ", requested)
            /\ (~noAmount /\ requested \in {"ton", "nano"}) =>
                   ret.status = "return"

\* a zero coin value with an unrecognized currency: the amount check is first
C8_Witness ==
    /\ ret.fn = "getTxValueAmount"
    /\ tx.coins = <<0>>
    /\ ret.opts.currency = "btc"
    /\ ret.status = "throw"
    /\ ret.error = "Can't get currency from transaction"

\* address.toRawString(): workchain, a colon, the hash in hex
toRawString(a) == Digits(a.workChain) \o <<58>> \o a.hash

\* C9: getTxSender returns undefined (no hex) or signals an error (hex)
\* when there is no source, and returns the native address (no hex) or its
\* raw string form (hex) when there is one.
C9_SenderBySourceAndHex ==
    ret.fn = "getTxSender" =>
        LET has == tx.hasIn /\ tx.src # <<>>
            hex == ret.opts.hex
        IN  /\ (~has /\ ~hex) => ret = Returned("getTxSender", ret.opts, UndefinedVal)
            /\ (~has /\ hex) => ret.status = "throw"
            /\ (has /\ ~hex) =>
                   ret = Returned("getTxSender", ret.opts, AddressVal(tx.src[1]))
            /\ (has /\ hex) =>
                   ret = Returned("getTxSender", ret.opts,
                                  StringVal(toRawString(tx.src[1])))

====
